---- MODULE Spec2Model ----
(***************************************************************************)
(* A model of the Click gateway client (src/gateways/click/client.py) and  *)
(* of the webhook endpoints wired in examples/paytechuz_fastapi/main.py.   *)
(*                                                                         *)
(* Python values are tagged records, strings that the code splits are      *)
(* sequences of one-character strings, and a dict is a function from the   *)
(* keys it holds.  An operation's outcome is either                        *)
(*   [kind |-> "return", value |-> v]  or  [kind |-> "raise", exc |-> e].  *)
(*                                                                         *)
(* The outcomes are those of the method bodies.  The @handle_exceptions    *)
(* wrapper, the merchant API and the webhook handler classes live in       *)
(* modules that are not among these sources; the merchant API and the      *)
(* handlers are modelled from their specification, the wrapper is not      *)
(* modelled.                                                               *)
(***************************************************************************)
EXTENDS Integers, Sequences, FiniteSets, TLC

VARIABLES
    gateway,        \* the ClickGateway object's fields
    constructed,    \* history: the fields as __init__ set them
    remote,         \* Click's side: account id -> native status of its payment
    last,           \* the last client call: operation, inputs, outcome, API calls
    memo,           \* history: one earlier create_payment call and its URL
    reportedPaid,   \* history: accounts check_payment has reported 'paid'
    orders,         \* the host application's Order table: id -> record
    lastHook,       \* the last webhook delivery: request, acknowledgment
    seen            \* history: one earlier webhook delivery and its outcome

gatewayVars == <<gateway, constructed, remote, last, memo, reportedPaid>>
webhookVars == <<orders, lastHook, seen>>
vars == <<gateway, constructed, remote, last, memo, reportedPaid,
          orders, lastHook, seen>>

(***************************************************************************)
(* Bounds of the model.                                                    *)
(***************************************************************************)
MaxSegs == 4        \* underscore-delimited segments in a generated transaction id
MaxOrders == 1      \* orders the host application creates

(***************************************************************************)
(* Python values.                                                          *)
(***************************************************************************)
PyNone == [t |-> "NoneType"]
PyStr(s) == [t |-> "str", s |-> s]
PyInt(n) == [t |-> "int", n |-> n]
PyList(s) == [t |-> "list", items |-> s]

\* str(v), as an f-string replacement field formats it.
Str(v) ==
    CASE v.t = "str" -> v.s
      [] v.t = "int" -> ToString(v.n)
      [] v.t = "NoneType" -> "None"
      [] v.t = "list" -> "[...]"

\* bool(v), as `if v:` tests it.
Truthy(v) ==
    CASE v.t = "str" -> v.s # ""
      [] v.t = "int" -> v.n # 0
      [] v.t = "NoneType" -> FALSE
      [] v.t = "list" -> v.items # <<>>

\* Whether hash(v) succeeds, as a dict lookup with key v needs.
Hashable(v) == v.t # "list"

\* d.get(k, default) on a dict d.
Get(d, k, default) == IF k \in DOMAIN d THEN d[k] ELSE default

Return(v) == [kind |-> "return", value |-> v]
Raise(e) == [kind |-> "raise", exc |-> e]

(***************************************************************************)
(* ClickGateway.create_payment                                             *)
(***************************************************************************)
BaseUrl == "https://my.click.uz/services/pay"

Param(sep, key, v) == [sep |-> sep, key |-> key, val |-> Str(v)]

\* A variant that converts an integer amount to the smallest currency unit.
QueryParamsScaled(self, id, amount, kwargs) ==
    LET description == Get(kwargs, "description",
                           PyStr("Payment for account " \o Str(id)))
        return_url == Get(kwargs, "return_url", PyNone)
        callback_url == Get(kwargs, "callback_url", PyNone)
        scaled == IF amount.t = "int" THEN PyInt(amount.n * 100) ELSE amount
    IN  << Param("?", "service_id", self.service_id),
           Param("&", "merchant_id", self.merchant_id),
           Param("&", "amount", scaled),
           Param("&", "transaction_param", id) >>
        \o (IF Truthy(return_url)
              THEN << Param("&", "return_url", return_url) >> ELSE << >>)
        \o (IF Truthy(callback_url)
              THEN << Param("&", "callback_url", callback_url) >> ELSE << >>)
        \o (IF Truthy(description)
              THEN << Param("&", "merchant_user_id", description) >> ELSE << >>)

\* The query parameters create_payment appends, in the order it appends them.
QueryParams(self, id, amount, kwargs) ==
    LET description == Get(kwargs, "description",
                           PyStr("Payment for account " \o Str(id)))
        return_url == Get(kwargs, "return_url", PyNone)
        callback_url == Get(kwargs, "callback_url", PyNone)
    IN  << Param("?", "service_id", self.service_id),
           Param("&", "merchant_id", self.merchant_id),
           Param("&", "amount", amount),
           Param("&", "transaction_param", id) >>
        \o (IF Truthy(return_url)
              THEN << Param("&", "return_url", return_url) >> ELSE << >>)
        \o (IF Truthy(callback_url)
              THEN << Param("&", "callback_url", callback_url) >> ELSE << >>)
        \o (IF Truthy(description)
              THEN << Param("&", "merchant_user_id", description) >> ELSE << >>)

RECURSIVE Render(_)
Render(ps) ==
    IF ps = << >> THEN ""
    ELSE Head(ps).sep \o Head(ps).key \o "=" \o Head(ps).val \o Render(Tail(ps))

\* The payment URL string create_payment builds.
payment_url(self, id, amount, kwargs) ==
    BaseUrl \o Render(QueryParams(self, id, amount, kwargs))

\* A variant that keeps the description on the gateway object.
create_payment_keeping(self, id, amount, kwargs) ==
    [out |-> Return(payment_url(self, id, amount, kwargs)),
     appended |-> QueryParams(self, id, amount, kwargs),
     calls |-> << >>,
     self |-> [self EXCEPT !.merchant_user_id =
                 Get(kwargs, "description", PyStr("Payment for account " \o Str(id)))]]

\* The call: its outcome, the query parameters it appended, the merchant-API
\* calls it made (none), and the gateway object after it (no attribute is
\* assigned).
create_payment(self, id, amount, kwargs) ==
    [out |-> Return(payment_url(self, id, amount, kwargs)),
     appended |-> QueryParams(self, id, amount, kwargs),
     calls |-> << >>,
     self |-> self]

(***************************************************************************)
(* Transaction ids.  A transaction id is a sequence of characters.         *)
(***************************************************************************)
click == << "c", "l", "i", "c", "k" >>
payme == << "p", "a", "y", "m", "e" >>

\* transaction_id.split(sep): the maximal sep-free pieces, in order.
RECURSIVE split(_, _)
split(s, sep) ==
    IF \A i \in 1..Len(s) : s[i] # sep
      THEN << s >>
      ELSE LET i == CHOOSE k \in 1..Len(s) :
                        s[k] = sep /\ \A j \in 1..(k - 1) : s[j] # sep
           IN  << SubSeq(s, 1, i - 1) >> \o split(SubSeq(s, i + 1, Len(s)), sep)

\* A variant that accepts two segments.
InvalidFormatTwo(parts) == Len(parts) < 2 \/ parts[1] # click

\* The guard of the `raise ValueError` in check_payment and cancel_payment.
InvalidFormat(parts) == Len(parts) < 3 \/ parts[1] # click

\* A variant that counts the account segment from the end.
AccountFromEnd(parts) == parts[Len(parts) - 1]

\* account_id = parts[1] (Python counts from 0).
AccountOf(parts) == parts[2]

(***************************************************************************)
(* ClickMerchantApi, the collaborator check_payment and cancel_payment     *)
(* delegate to.  `world` is Click's side: the native status of the payment *)
(* of each account it knows.  `fault` is what goes wrong on the way.       *)
(***************************************************************************)
Missing == [t |-> "missing"]    \* the payload carries no 'status' key

Amount == PyInt(150000)

StatusPayload(native) ==
    IF native = Missing
      THEN ("amount" :> Amount)
      ELSE ("status" :> native) @@ ("amount" :> Amount)

MerchantCheckPayment(world, fault, account_id) ==
    IF fault # "none" THEN Raise(fault)
    ELSE IF account_id \notin DOMAIN world THEN Raise("NotFoundError")
    ELSE Return(StatusPayload(world[account_id]))

NotCancellable == { PyStr("success"), PyStr("cancelled") }

CancelPayload == ("cancelled_at" :> PyStr("2025-01-01T00:00:00"))

\* The outcome, and Click's side after the call.
MerchantCancelPayment(world, fault, account_id, reason) ==
    IF fault # "none" THEN [out |-> Raise(fault), world |-> world]
    ELSE IF account_id \notin DOMAIN world
      THEN [out |-> Raise("NotFoundError"), world |-> world]
    ELSE IF world[account_id] \in NotCancellable
      THEN [out |-> Raise("InvalidStateError"), world |-> world]
    ELSE [out |-> Return(CancelPayload),
          world |-> [world EXCEPT ![account_id] = PyStr("cancelled")]]

(***************************************************************************)
(* ClickGateway.check_payment and ClickGateway.cancel_payment.  Each gives *)
(* the call's outcome, the merchant-API calls it made, Click's side after  *)
(* it, and the gateway object after it (no attribute is assigned).         *)
(***************************************************************************)
status_mapping ==
    [s \in {"success", "processing", "failed", "cancelled"} |->
        CASE s = "success" -> "paid"
          [] s = "processing" -> "waiting"
          [] s = "failed" -> "failed"
          [] s = "cancelled" -> "cancelled"]

\* status_mapping.get(status, 'unknown'); hashing an unhashable key raises.
MapStatus(status) ==
    IF ~Hashable(status) THEN Raise("TypeError")
    ELSE IF status.t = "str" /\ status.s \in DOMAIN status_mapping
      THEN Return(status_mapping[status.s])
    ELSE Return("unknown")

check_payment(self, transaction_id, world, fault) ==
    LET parts == split(transaction_id, "_")
    IN  IF InvalidFormat(parts)
          THEN [out |-> Raise("ValueError"), calls |-> << >>, world |-> world, self |-> self]
        ELSE
          LET account_id == AccountOf(parts)
              call == [method |-> "check_payment", account_id |-> account_id,
                       reason |-> PyNone]
              resp == MerchantCheckPayment(world, fault, account_id)
          IN  IF resp.kind = "raise"
                THEN [out |-> resp, calls |-> << call >>, world |-> world, self |-> self]
              ELSE
                LET payment_data == resp.value
                    status == Get(payment_data, "status", PyNone)
                    mapped_status == MapStatus(status)
                IN  IF mapped_status.kind = "raise"
                      THEN [out |-> mapped_status, calls |-> << call >>,
                            world |-> world, self |-> self]
                    ELSE [out |-> Return(
                              [transaction_id |-> transaction_id,
                               status |-> mapped_status.value,
                               amount |-> Get(payment_data, "amount", PyNone),
                               paid_at |-> Get(payment_data, "paid_at", PyNone),
                               created_at |-> Get(payment_data, "created_at", PyNone),
                               raw_response |-> payment_data]),
                          calls |-> << call >>, world |-> world, self |-> self]

\* A variant that falls back to an empty payload when the merchant API fails.
cancel_payment_fallback(self, transaction_id, reason, world, fault) ==
    LET parts == split(transaction_id, "_")
    IN  IF InvalidFormat(parts)
          THEN [out |-> Raise("ValueError"), calls |-> << >>, world |-> world, self |-> self]
        ELSE
          LET account_id == AccountOf(parts)
              call == [method |-> "cancel_payment", account_id |-> account_id,
                       reason |-> reason]
              resp == MerchantCancelPayment(world, fault, account_id, reason)
              cancel_data == IF resp.out.kind = "raise" THEN << >> ELSE resp.out.value
          IN  [out |-> Return(
                   [transaction_id |-> transaction_id,
                    status |-> "cancelled",
                    cancelled_at |-> Get(cancel_data, "cancelled_at", PyNone),
                    raw_response |-> cancel_data]),
               calls |-> << call >>, world |-> resp.world, self |-> self]

cancel_payment(self, transaction_id, reason, world, fault) ==
    LET parts == split(transaction_id, "_")
    IN  IF InvalidFormat(parts)
          THEN [out |-> Raise("ValueError"), calls |-> << >>, world |-> world, self |-> self]
        ELSE
          LET account_id == AccountOf(parts)
              call == [method |-> "cancel_payment", account_id |-> account_id,
                       reason |-> reason]
              resp == MerchantCancelPayment(world, fault, account_id, reason)
          IN  IF resp.out.kind = "raise"
                THEN [out |-> resp.out, calls |-> << call >>, world |-> resp.world, self |-> self]
              ELSE
                LET cancel_data == resp.out.value
                IN  [out |-> Return(
                         [transaction_id |-> transaction_id,
                          status |-> "cancelled",
                          cancelled_at |-> Get(cancel_data, "cancelled_at", PyNone),
                          raw_response |-> cancel_data]),
                     calls |-> << call >>, world |-> resp.world, self |-> self]

(***************************************************************************)
(* ClickGateway.__init__                                                   *)
(***************************************************************************)
ClickGateway(service_id, merchant_id, merchant_user_id, secret_key, is_test_mode) ==
    LET url == IF is_test_mode THEN "ClickNetworks.TEST_NET"
                               ELSE "ClickNetworks.PROD_NET"
        http_client == [base_url |-> url]
    IN  [service_id |-> service_id,
         merchant_id |-> merchant_id,
         merchant_user_id |-> merchant_user_id,
         secret_key |-> secret_key,
         http_client |-> http_client,
         merchant_api |-> [http_client |-> http_client,
                           service_id |-> service_id,
                           merchant_user_id |-> merchant_user_id,
                           secret_key |-> secret_key]]

\* A gateway constructed with only the required arguments.
PlainGateway == ClickGateway(PyStr("S"), PyStr("M"), PyNone, PyNone, FALSE)

\* click = ClickGateway(service_id=..., ..., is_test_mode=True), as main.py constructs it.
click_gateway ==
    ClickGateway(PyStr("your_service_id"), PyStr("your_merchant_id"),
                 PyStr("your_merchant_user_id"), PyStr("your_secret_key"), TRUE)

Gateways == { PlainGateway, click_gateway }

(***************************************************************************)
(* Inputs.                                                                 *)
(***************************************************************************)
KwargKeys == {"return_url", "callback_url", "description"}

Kwargs(returnUrls, callbackUrls, descriptions) ==
    { kw \in UNION { [K -> returnUrls \cup callbackUrls \cup descriptions] :
                       K \in SUBSET KwargKeys } :
        /\ "return_url" \in DOMAIN kw => kw["return_url"] \in returnUrls
        /\ "callback_url" \in DOMAIN kw => kw["callback_url"] \in callbackUrls
        /\ "description" \in DOMAIN kw => kw["description"] \in descriptions }

CreateInput(id, amount, kwargs) == [id |-> id, amount |-> amount, kwargs |-> kwargs]

\* create_payment inputs: every combination of a few values of each argument.
CreateInputs ==
    { CreateInput(ia[1], ia[2], kw) :
        ia \in { << PyInt(42), PyInt(150000) >>, << PyStr("7"), PyStr("1500.50") >> },
        kw \in Kwargs({PyNone, PyStr("https://x/done")},
                      {PyStr("https://x/cb")},
                      {PyStr(""), PyStr("Book")}) }

\* The call of the specification's example, and the call main.py makes.
FewCreateInputs ==
    { CreateInput(PyInt(42), PyInt(150000),
                  ("return_url" :> PyStr("https://x/done"))),
      CreateInput(PyStr("7"), PyInt(150000),
                  ("description" :> PyStr("Book")) @@ ("return_url" :> PyNone)) }

RECURSIVE join(_, _)
join(segs, sep) ==
    IF Len(segs) = 1 THEN Head(segs)
    ELSE Head(segs) \o << sep >> \o join(Tail(segs), sep)

Segs == { click, << "4", "2" >> }

GeneratedIds ==
    { join(segs, "_") : segs \in UNION { [1..n -> Segs] : n \in 1..MaxSegs } }

ExampleIds ==
    { << >>,
      << "b", "o", "g", "u", "s" >>,
      click \o << "_", "1", "2", "3" >>,
      payme \o << "_", "4", "2", "_", "1", "5", "0" >>,
      click \o << "_", "4", "2", "_", "1", "5", "0" >>,
      click \o << "_", "4", "_", "2", "_", "1", "0", "0" >>,
      click \o << "_", "_", "4", "2" >>,
      << "_" >> \o click \o << "_", "4", "2", "_", "1" >>,
      << "C", "l", "i", "c", "k", "_", "4", "2", "_", "1" >> }

TransactionIds == GeneratedIds \cup ExampleIds

FewTransactionIds ==
    { << "b", "o", "g", "u", "s" >>,
      click \o << "_", "4", "2", "_", "1", "5", "0" >>,
      click \o << "_", "4", "_", "2", "_", "1", "0", "0" >> }

Reasons == { PyNone, PyStr("duplicate") }

Faults == { "none", "NetworkError" }

Accounts == { << "4", "2" >> }

\* Native status values a payload can carry (or not carry at all).
NativeStatuses ==
    { PyStr("success"), PyStr("processing"), PyStr("failed"), PyStr("cancelled"),
      PyStr("refunded"), PyNone, PyInt(2),
      PyList(<< PyStr("success") >>), Missing }

\* Native statuses Click does not move a payment out of by itself.
Settled == { PyStr("success"), PyStr("cancelled"), PyStr("failed") }

(***************************************************************************)
(* The client's state machine.                                             *)
(***************************************************************************)
NoCall == [op |-> "none"]
NoMemo == [set |-> FALSE]

InitGateway(gateways) ==
    /\ gateway \in gateways
    /\ constructed = gateway
    /\ remote = [a \in Accounts |-> PyStr("processing")]
    /\ last = NoCall
    /\ memo = NoMemo
    /\ reportedPaid = {}

CreatePayment(in, record) ==
    LET r == create_payment(gateway, in.id, in.amount, in.kwargs)
    IN  /\ gateway' = r.self
        /\ last' = [op |-> "create_payment", in |-> in, out |-> r.out,
                    appended |-> r.appended, calls |-> r.calls,
                    recorded |-> record]
        /\ memo' = IF record
                     THEN [set |-> TRUE, in |-> in, out |-> r.out]
                     ELSE memo
        /\ UNCHANGED << constructed, remote, reportedPaid >>
        /\ UNCHANGED webhookVars

CheckPayment(transaction_id, fault) ==
    LET r == check_payment(gateway, transaction_id, remote, fault)
    IN  /\ gateway' = r.self
        /\ remote' = r.world
        /\ last' = [op |-> "check_payment", in |-> transaction_id, out |-> r.out,
                    calls |-> r.calls, before |-> remote, fault |-> fault]
        /\ reportedPaid' =
             IF r.out.kind = "return" /\ r.out.value.status = "paid"
               THEN reportedPaid \cup { r.calls[1].account_id }
               ELSE reportedPaid
        /\ UNCHANGED << constructed, memo >>
        /\ UNCHANGED webhookVars

CancelPayment(transaction_id, reason, fault) ==
    LET r == cancel_payment(gateway, transaction_id, reason, remote, fault)
    IN  /\ gateway' = r.self
        /\ remote' = r.world
        /\ last' = [op |-> "cancel_payment", in |-> transaction_id, out |-> r.out,
                    calls |-> r.calls, before |-> remote, fault |-> fault]
        /\ UNCHANGED << constructed, memo, reportedPaid >>
        /\ UNCHANGED webhookVars

\* Click's side moves a payment that is not settled to another native status.
\* `last` describes a call only in the state the call leads to.
RemoteChange(account_id, native) ==
    /\ remote[account_id] \notin Settled
    /\ remote[account_id] # native
    /\ remote' = [remote EXCEPT ![account_id] = native]
    /\ last' = NoCall
    /\ UNCHANGED << gateway, constructed, memo, reportedPaid >>
    /\ UNCHANGED webhookVars

(***************************************************************************)
(* The example application (main.py): its gateway objects, its Order table *)
(* and its two webhook endpoints.                                          *)
(***************************************************************************)
\* payme = PaymeGateway(payme_id=..., payme_key=..., is_test_mode=True)
payme_gateway ==
    [payme_id |-> "your_payme_id", payme_key |-> "your_payme_key",
     is_test_mode |-> TRUE]

\* A variant whose key differs from the one the gateway object is given.
PaymeHandlerConfigStale ==
    [payme_id |-> "your_payme_id", payme_key |-> "stale_payme_key",
     account_field |-> "id", amount_field |-> "amount"]

\* CustomPaymeWebhookHandler(db=db, payme_id=..., payme_key=..., ...)
PaymeHandlerConfig ==
    [payme_id |-> "your_payme_id", payme_key |-> "your_payme_key",
     account_field |-> "id", amount_field |-> "amount"]

\* CustomClickWebhookHandler(db=db, service_id=..., merchant_id=..., secret_key=...)
ClickHandlerConfig ==
    [service_id |-> "your_service_id", merchant_id |-> "your_merchant_id",
     secret_key |-> "your_secret_key"]

Terminal == {"paid", "cancelled", "failed"}

\* The status an event leads to.
Target(event) ==
    CASE event = "create" -> "waiting"
      [] event = "confirm" -> "paid"
      [] event = "cancel" -> "cancelled"
      [] event = "error" -> "failed"
      [] event = "check" -> "none"

\* A variant that cancels from any status.
TransitionCancelAnywhere(status, event) ==
    CASE event = "check" -> [ok |-> TRUE, status |-> status]
      [] event = "cancel" -> [ok |-> TRUE, status |-> "cancelled"]
      [] event \notin {"check", "cancel"} /\ status = Target(event) ->
            [ok |-> TRUE, status |-> status]
      [] event = "create" /\ status = "pending" -> [ok |-> TRUE, status |-> "waiting"]
      [] event = "confirm" /\ status = "waiting" -> [ok |-> TRUE, status |-> "paid"]
      [] event = "error" /\ status = "waiting" -> [ok |-> TRUE, status |-> "failed"]
      [] OTHER -> [ok |-> FALSE, status |-> status]

\* The canonical state machine: whether the event is accepted in `status`,
\* and the status after it.
Transition(status, event) ==
    CASE event = "check" -> [ok |-> TRUE, status |-> status]
      [] event # "check" /\ status = Target(event) -> [ok |-> TRUE, status |-> status]
      [] event # "check" /\ status # Target(event) /\ status \in Terminal ->
            [ok |-> FALSE, status |-> status]
      [] event = "create" /\ status = "pending" -> [ok |-> TRUE, status |-> "waiting"]
      [] event = "confirm" /\ status = "waiting" -> [ok |-> TRUE, status |-> "paid"]
      [] event = "cancel" /\ status \in {"pending", "waiting"} ->
            [ok |-> TRUE, status |-> "cancelled"]
      [] event = "error" /\ status = "waiting" -> [ok |-> TRUE, status |-> "failed"]
      [] OTHER -> [ok |-> FALSE, status |-> status]

\* Step 1 for Payme: HTTP Basic credentials against the handler's configuration.
PaymeAuthenticated(config, request) ==
    request.auth = [login |-> config.payme_id, password |-> config.payme_key]

\* The signature Click computes over the callback's fixed fields and the secret.
ClickSign(click_trans_id, merchant_trans_id, amount, action, secret_key) ==
    [click_trans_id |-> click_trans_id, merchant_trans_id |-> merchant_trans_id,
     amount |-> amount, action |-> action, secret_key |-> secret_key]

\* Step 1 for Click: the computed signature against sign_string.
ClickAuthenticated(config, request) ==
    request.sign_string =
        ClickSign(request.click_trans_id, request.merchant_trans_id,
                  request.amount, request.action, config.secret_key)

PaymeEvent(request) ==
    CASE request.method = "CreateTransaction" -> "create"
      [] request.method = "PerformTransaction" -> "confirm"
      [] request.method = "CancelTransaction" -> "cancel"
      [] OTHER -> "check"

ClickEvent(request) ==
    IF request.error < 0 THEN "error"
    ELSE IF request.action = 0 THEN "create"
    ELSE "confirm"

ErrorAck(request, code) == [kind |-> "error", code |-> code, request |-> request]
ResultAck(request, status) == [kind |-> "result", status |-> status, request |-> request]

\* Steps 2 to 4: resolve the order, apply the transition, persist, acknowledge.
ApplyEvent(db, request, account, amount, event) ==
    IF account \notin DOMAIN db \/ db[account].amount # amount
      THEN [ack |-> ErrorAck(request, "not_found"), db |-> db]
    ELSE LET t == Transition(db[account].status, event)
         IN  IF ~t.ok
               THEN [ack |-> ErrorAck(request, "invalid_state"), db |-> db]
               ELSE [ack |-> ResultAck(request, t.status),
                     db |-> [db EXCEPT ![account].status = t.status]]

PaymeHandleWebhook(config, db, request) ==
    IF ~PaymeAuthenticated(config, request)
      THEN [ack |-> ErrorAck(request, "unauthorized"), db |-> db]
      ELSE ApplyEvent(db, request, request.account, request.amount, PaymeEvent(request))

ClickHandleWebhook(config, db, request) ==
    IF ~ClickAuthenticated(config, request)
      THEN [ack |-> ErrorAck(request, "unauthorized"), db |-> db]
      ELSE ApplyEvent(db, request, request.merchant_trans_id, request.amount,
                      ClickEvent(request))

\* The two endpoints of main.py.
payme_webhook(db, request) == PaymeHandleWebhook(PaymeHandlerConfig, db, request)
click_webhook(db, request) == ClickHandleWebhook(ClickHandlerConfig, db, request)

\* payment_method.lower(), on the methods the model submits.
Lower(method) == IF method = "Click" THEN "click" ELSE method

\* The Order row create_order inserts.
NewOrder(order_data) ==
    [product_name |-> order_data.product_name, amount |-> order_data.amount,
     status |-> "pending"]

\* create_order: the Order table after it, and the ClickGateway.create_payment
\* call it makes (none on the Payme path and on a rejected request).
create_order(db, order_data) ==
    IF Lower(order_data.payment_method) \notin {"payme", "click"}
      THEN [out |-> Raise("HTTPException(400)"), db |-> db, called |-> FALSE]
    ELSE LET db_order_id == Len(db) + 1
             db2 == Append(db, NewOrder(order_data))
         IN  IF Lower(order_data.payment_method) = "payme"
               THEN [out |-> Return("payme"), db |-> db2, called |-> FALSE]
               ELSE [out |-> Return("click"), db |-> db2, called |-> TRUE,
                     in |-> CreateInput(
                              PyStr(ToString(db_order_id)),
                              PyInt(order_data.amount * 100),
                              ("description" :> PyStr(order_data.product_name))
                                @@ ("return_url" :> order_data.return_url))]

OrderData ==
    [product_name : {"Book"}, amount : {100},
     payment_method : {"payme", "click", "Click", "cash"},
     return_url : {PyNone, PyStr("https://x/done")}]

OrderIds == 1..(MaxOrders + 1)

NoAuth == [absent |-> TRUE]

PaymeRequests ==
    [gateway : {"payme"},
     auth : { NoAuth,
              [login |-> "your_payme_id", password |-> "your_payme_key"],
              [login |-> "your_payme_id", password |-> "stale_payme_key"] },
     method : {"CheckPerformTransaction", "CreateTransaction", "PerformTransaction",
               "CancelTransaction", "CheckTransaction"},
     account : OrderIds,
     amount : {100, 999}]

ClickRequests ==
    { [gateway |-> "click", click_trans_id |-> "t1", merchant_trans_id |-> o,
       amount |-> a, action |-> act, error |-> e,
       sign_string |-> ClickSign("t1", o, a, act, k)] :
        o \in OrderIds, a \in {100, 999}, act \in {0, 1}, e \in {0, -1},
        k \in {"your_secret_key", "forged_key"} }

NoHook == [endpoint |-> "none"]
NoSeen == [set |-> FALSE]

InitWebhook ==
    /\ orders = << >>
    /\ lastHook = NoHook
    /\ seen = NoSeen

CreateOrder(order_data) ==
    LET r == create_order(orders, order_data)
    IN  /\ r.out.kind = "return" => Len(orders) < MaxOrders
        /\ orders' = r.db
        /\ IF r.called
             THEN LET c == create_payment(gateway, r.in.id, r.in.amount, r.in.kwargs)
                  IN  /\ gateway' = c.self
                      /\ last' = [op |-> "create_payment", in |-> r.in, out |-> c.out,
                                  appended |-> c.appended, calls |-> c.calls,
                                  recorded |-> FALSE]
             ELSE UNCHANGED << gateway, last >>
        /\ UNCHANGED << constructed, remote, memo, reportedPaid, lastHook, seen >>

\* The record of a delivery: the request, the order it names, the handler's
\* acknowledgment and the Order table before and after.
Delivery(endpoint, request, account, r) ==
    [endpoint |-> endpoint, request |-> request, account |-> account,
     ack |-> r.ack, before |-> orders, after |-> r.db]

\* The first delivery that takes an order into a terminal status is remembered.
Remember(request, account, r) ==
    IF /\ ~seen.set
       /\ account \in DOMAIN orders
       /\ orders[account].status \notin Terminal
       /\ r.db[account].status \in Terminal
      THEN [set |-> TRUE, request |-> request, account |-> account,
            ack |-> r.ack, status |-> r.db[account].status]
      ELSE seen

PaymeWebhook(request) ==
    LET r == payme_webhook(orders, request)
    IN  /\ orders' = r.db
        /\ lastHook' = Delivery("payme", request, request.account, r)
        /\ seen' = Remember(request, request.account, r)
        /\ UNCHANGED gatewayVars

ClickWebhook(request) ==
    LET r == click_webhook(orders, request)
    IN  /\ orders' = r.db
        /\ lastHook' = Delivery("click", request, request.merchant_trans_id, r)
        /\ seen' = Remember(request, request.merchant_trans_id, r)
        /\ UNCHANGED gatewayVars

(***************************************************************************)
(* Specifications.                                                         *)
(***************************************************************************)
\* A fault happens on a merchant-API call, so only where one is made.
FaultsFor(transaction_id) ==
    IF InvalidFormat(split(transaction_id, "_")) THEN {"none"} ELSE Faults

\* The client under every transaction id, with Click's side moving.
Init == InitGateway({PlainGateway}) /\ InitWebhook

Next ==
    \/ \E in \in FewCreateInputs : CreatePayment(in, FALSE)
    \/ \E t \in TransactionIds : \E f \in FaultsFor(t) : CheckPayment(t, f)
    \/ \E t \in TransactionIds, r \in Reasons : \E f \in FaultsFor(t) : CancelPayment(t, r, f)
    \/ \E a \in Accounts, n \in NativeStatuses : RemoteChange(a, n)

Spec == Init /\ [][Next]_vars

\* The client under every create_payment input, on either gateway.
InitUrl == InitGateway(Gateways) /\ InitWebhook

NextUrl ==
    \/ \E in \in CreateInputs, record \in BOOLEAN : CreatePayment(in, record)
    \/ \E t \in FewTransactionIds : \E f \in FaultsFor(t) : CheckPayment(t, f)
    \/ \E t \in FewTransactionIds, r \in Reasons : \E f \in FaultsFor(t) : CancelPayment(t, r, f)

SpecUrl == InitUrl /\ [][NextUrl]_vars

\* The example application: orders and webhook deliveries.
InitWebhooks == InitGateway({click_gateway}) /\ InitWebhook

NextWebhook ==
    \/ \E d \in OrderData : CreateOrder(d)
    \/ \E q \in PaymeRequests : PaymeWebhook(q)
    \/ \E q \in ClickRequests : ClickWebhook(q)

SpecWebhook == InitWebhooks /\ [][NextWebhook]_vars

(***************************************************************************)
(* Properties of check_payment and cancel_payment.                         *)
(***************************************************************************)
Underscores(t) == { i \in 1..Len(t) : t[i] = "_" }

\* The id has at least 3 underscore-delimited segments, the first being 'click'.
WellFormedId(t) ==
    /\ Cardinality(Underscores(t)) >= 2
    /\ Len(t) >= 6
    /\ \A i \in 1..5 : t[i] = click[i]
    /\ t[6] = "_"

FirstUnderscore(t) == CHOOSE i \in Underscores(t) : \A j \in Underscores(t) : i <= j

SecondUnderscore(t) ==
    CHOOSE i \in Underscores(t) \ {FirstUnderscore(t)} :
        \A j \in Underscores(t) \ {FirstUnderscore(t)} : i <= j

\* The second underscore-delimited segment of a well-formed id.
SecondSegment(t) == SubSeq(t, FirstUnderscore(t) + 1, SecondUnderscore(t) - 1)

IsLookup == last.op \in {"check_payment", "cancel_payment"}

C10_ParseBeforeDelegate ==
    IsLookup =>
        /\ ~WellFormedId(last.in) => last.calls = << >>
        /\ WellFormedId(last.in) =>
             /\ Len(last.calls) = 1
             /\ last.calls[1].method = last.op
             /\ last.calls[1].account_id = SecondSegment(last.in)
             /\ last.out.kind = "return" => last.out.value.transaction_id = last.in

\* check_payment("click_4_2_100") has asked the merchant API for account "4".
C10_Witness ==
    /\ last.op = "check_payment"
    /\ last.in = click \o << "_", "4", "_", "2", "_", "1", "0", "0" >>
    /\ Len(last.calls) = 1
    /\ last.calls[1].account_id = << "4" >>

Canonical == {"paid", "waiting", "failed", "cancelled", "unknown"}

\* The canonical status the mapping table gives a native status.
ExpectedStatus(native) ==
    CASE native = PyStr("success") -> "paid"
      [] native = PyStr("processing") -> "waiting"
      [] native = PyStr("failed") -> "failed"
      [] native = PyStr("cancelled") -> "cancelled"
      [] OTHER -> "unknown"

\* The merchant API answered the last call with a payload for the account.
Answered ==
    /\ WellFormedId(last.in)
    /\ last.fault = "none"
    /\ SecondSegment(last.in) \in DOMAIN last.before

NativeBefore == last.before[SecondSegment(last.in)]

\* C2: for a well-formed id and any payload of the merchant API,
\* check_payment returns, with the canonical status of the payload's native
\* status: 'unknown' for every value outside the table, a missing one included.
C2_StatusMappingTotal ==
    (last.op = "check_payment" /\ Answered) =>
        /\ last.out.kind = "return"
        /\ last.out.value.status = ExpectedStatus(NativeBefore)
        /\ last.out.value.status \in Canonical

\* The same, for the payloads whose native status is hashable (a string, a
\* number, null) or missing.
StatusMappingOnHashable ==
    (last.op = "check_payment" /\ Answered /\ NativeBefore.t # "list") =>
        /\ last.out.kind = "return"
        /\ last.out.value.status = ExpectedStatus(NativeBefore)
        /\ last.out.value.status \in Canonical

\* C7: cancel_payment on a payment that is already paid or cancelled fails
\* with InvalidStateError; it returns a result, of status 'cancelled' with the
\* merchant API's cancelled_at and payload, only when the merchant API has
\* cancelled the payment; an account that check_payment has reported 'paid'
\* is never reported 'cancelled'.
C7_CancelOnlyWhenCancelled ==
    last.op = "cancel_payment" =>
        /\ (Answered /\ NativeBefore \in {PyStr("success"), PyStr("cancelled")})
              => last.out = Raise("InvalidStateError")
        /\ last.out.kind = "return" =>
              /\ Answered
              /\ NativeBefore \notin {PyStr("success"), PyStr("cancelled")}
              /\ remote[SecondSegment(last.in)] = PyStr("cancelled")
              /\ last.out.value.status = "cancelled"
              /\ last.out.value.cancelled_at = CancelPayload["cancelled_at"]
              /\ last.out.value.raw_response = CancelPayload
              /\ SecondSegment(last.in) \notin reportedPaid

\* A cancellation of a payment reported 'paid' has been refused.
C7_Witness ==
    /\ last.op = "cancel_payment"
    /\ last.out = Raise("InvalidStateError")
    /\ SecondSegment(last.in) \in reportedPaid

\* A cancellation has been performed and reported.
C7_WitnessCancelled ==
    /\ last.op = "cancel_payment"
    /\ last.out.kind = "return"
    /\ last.out.value.status = "cancelled"

(***************************************************************************)
(* Properties of create_payment.                                           *)
(***************************************************************************)
\* The text of the values the model passes, written out.
Shown(v) ==
    CASE v = PyInt(42) -> "42"
      [] v = PyInt(150000) -> "150000"
      [] v.t = "str" -> v.s

RECURSIVE QueryText(_)
QueryText(ps) ==
    IF Len(ps) = 0 THEN ""
    ELSE QueryText(SubSeq(ps, 1, Len(ps) - 1))
           \o ps[Len(ps)].sep \o ps[Len(ps)].key \o "=" \o ps[Len(ps)].val

Keys(ps) == [i \in 1..Len(ps) |-> ps[i].key]

Supplied(kwargs, key, param) == IF key \in DOMAIN kwargs THEN << param >> ELSE << >>

IsCreate == last.op = "create_payment"

\* C3: called with only id, amount and a return_url, create_payment returns
\* the URL of the four leading parameters and return_url, with nothing after
\* it; on the gateway of service S and merchant M,
\* create_payment(42, 150000, return_url="https://x/done") returns the URL
\* spelled out below.
C3_OnlyReturnUrl ==
    (/\ IsCreate
     /\ DOMAIN last.in.kwargs = {"return_url"}
     /\ last.in.kwargs["return_url"] = PyStr("https://x/done")) =>
        /\ last.out.value =
             "https://my.click.uz/services/pay?service_id=" \o gateway.service_id.s
               \o "&merchant_id=" \o gateway.merchant_id.s
               \o "&amount=" \o Shown(last.in.amount)
               \o "&transaction_param=" \o Shown(last.in.id)
               \o "&return_url=https://x/done"
        /\ (/\ gateway = PlainGateway
            /\ last.in.id = PyInt(42)
            /\ last.in.amount = PyInt(150000)) =>
              last.out.value =
                "https://my.click.uz/services/pay?service_id=S&merchant_id=M&amount=150000&transaction_param=42&return_url=https://x/done"

\* C4: the parameters come in the fixed order service_id, merchant_id,
\* amount, transaction_param, return_url, callback_url, merchant_user_id; the
\* first four always, and each of the last three if and only if the caller
\* supplied return_url, callback_url, description respectively.
C4_ParametersIffSupplied ==
    IsCreate =>
        Keys(last.appended) =
            << "service_id", "merchant_id", "amount", "transaction_param" >>
              \o Supplied(last.in.kwargs, "return_url", "return_url")
              \o Supplied(last.in.kwargs, "callback_url", "callback_url")
              \o Supplied(last.in.kwargs, "description", "merchant_user_id")

\* What holds of the order: the first four always, and a sub-sequence of the
\* last three after them.
ParameterOrder ==
    IsCreate =>
        \E r \in BOOLEAN, c \in BOOLEAN, d \in BOOLEAN :
            Keys(last.appended) =
                << "service_id", "merchant_id", "amount", "transaction_param" >>
                  \o (IF r THEN << "return_url" >> ELSE << >>)
                  \o (IF c THEN << "callback_url" >> ELSE << >>)
                  \o (IF d THEN << "merchant_user_id" >> ELSE << >>)

\* C5: the URL carries transaction_param=<id> and amount=<amount>, the
\* amount as passed; and a call with the inputs of an earlier call returns
\* the same URL, whatever calls were made in between.
C5_Deterministic ==
    IsCreate =>
        /\ last.out.value = "https://my.click.uz/services/pay" \o QueryText(last.appended)
        /\ \E i \in 1..Len(last.appended) :
              /\ last.appended[i].key = "transaction_param"
              /\ last.appended[i].val = Shown(last.in.id)
        /\ \E i \in 1..Len(last.appended) :
              /\ last.appended[i].key = "amount"
              /\ last.appended[i].val = Shown(last.in.amount)
        /\ (memo.set /\ memo.in = last.in) => memo.out = last.out

\* A call repeats the inputs of an earlier call, a cancellation lying behind.
C5_Witness ==
    /\ IsCreate
    /\ ~last.recorded
    /\ memo.set
    /\ memo.in = last.in
    /\ last.in.amount = PyInt(150000)
    /\ remote[<< "4", "2" >>] = PyStr("cancelled")

\* C6: create_payment makes no merchant-API call, and no sequence of
\* create_payment, check_payment and cancel_payment calls changes a field of
\* the gateway object from what __init__ set.
C6_GatewayUnchanged ==
    /\ gateway = constructed
    /\ IsCreate => last.calls = << >>

\* A create_payment call with a description, after a performed cancellation.
C6_Witness ==
    /\ IsCreate
    /\ "description" \in DOMAIN last.in.kwargs
    /\ memo.set
    /\ remote[<< "4", "2" >>] = PyStr("cancelled")
    /\ gateway = constructed

(***************************************************************************)
(* Properties of the webhook endpoints.                                    *)
(***************************************************************************)
Delivered == lastHook.endpoint # "none"

ConfiguredCredentials ==
    [login |-> payme_gateway.payme_id, password |-> payme_gateway.payme_key]

\* C9: a Payme delivery whose Basic-auth credentials are not those
\* configured is acknowledged with the unauthorized error and leaves the
\* Order table as it was, whatever its method and the order's status.
C9_UnauthorizedChangesNothing ==
    (/\ lastHook.endpoint = "payme"
     /\ lastHook.request.auth # ConfiguredCredentials) =>
        /\ lastHook.ack.kind = "error"
        /\ lastHook.ack.code = "unauthorized"
        /\ lastHook.after = lastHook.before

\* CancelTransaction for a paid order, with a key that is not the configured one.
C9_Witness ==
    /\ lastHook.endpoint = "payme"
    /\ lastHook.request.auth = [login |-> "your_payme_id", password |-> "stale_payme_key"]
    /\ lastHook.request.method = "CancelTransaction"
    /\ lastHook.request.account \in DOMAIN orders
    /\ orders[lastHook.request.account].status = "paid"
    /\ lastHook.ack.code = "unauthorized"

====
